---- MODULE Spec2Model ----
(***************************************************************************)
(* A model of the cooperative-task runtime of src/src/__main__.py:         *)
(* Future (the awaitable result), Task (the wrapper stepping a generator), *)
(* EventLoop (run_until_complete, getch, call_soon, call_soon_threadsafe)  *)
(* and of the computations the repository runs on it.                      *)
(*                                                                         *)
(* Objects live in `heap`, a sequence: the object's identity is its index  *)
(* and 0 stands for None.  The program's operations are operators on a     *)
(* "world" record w (the heap and the loop's fields), composed the way the *)
(* Python methods call each other; an action applies one of them.          *)
(***************************************************************************)
EXTENDS Integers, Sequences, FiniteSets, TLC

\* Bounds of the model.
MaxObj == 4          \* objects (futures and tasks) ever allocated
MaxReads == 3        \* values the blocking read returns
MaxCbs == 2          \* done callbacks ever registered
MaxThreadCalls == 1  \* call_soon_threadsafe calls of the timer thread
MaxRuns == 2         \* run_until_complete invocations
MaxOps == 4          \* calls of the application that create, settle, cancel or run

\* The event codes the blocking read returns (three of curses' int codes).
Keys == {65, 10, 7}

None == 0

\* ----------------------------------------------------------------------
\* Values and exceptions: one record shape, k names the Python type.
NoneV == [k |-> "None", i |-> 0, l |-> <<>>]
IntV(n) == [k |-> "int", i |-> n, l |-> <<>>]
ListV(s) == [k |-> "list", i |-> 0, l |-> s]
Exc(name) == [k |-> name, i |-> 0, l |-> <<>>]

CancelledError == Exc("CancelledError")
InvalidStateError == Exc("InvalidStateError")

\* ----------------------------------------------------------------------
\* _FutureState: the state classes of lines 58-74 and _TaskCancelling.
FutureWaiting == [tag |-> "Waiting", val |-> NoneV]
TaskCancelling == [tag |-> "Cancelling", val |-> NoneV]
FutureCancelled == [tag |-> "Cancelled", val |-> NoneV]
FutureException(e) == [tag |-> "Exception", val |-> e]
FutureResult(v) == [tag |-> "Result", val |-> v]

\* Future.done
done(s) == s.tag \in {"Cancelled", "Exception", "Result"}

\* Future.cancelled
cancelled(s) == s.tag = "Cancelled"

\* Future.result: what the call produces, ret for a return and exc for a raise.
result_Mutant(s) ==
  IF s.tag \in {"Result", "Exception"} THEN [exc |-> FALSE, val |-> s.val]
  ELSE IF s.tag = "Cancelled" THEN [exc |-> TRUE, val |-> CancelledError]
  ELSE [exc |-> TRUE, val |-> InvalidStateError]

result(s) ==
  IF s.tag = "Result" THEN [exc |-> FALSE, val |-> s.val]
  ELSE IF s.tag = "Exception" THEN [exc |-> TRUE, val |-> s.val]
  ELSE IF s.tag = "Cancelled" THEN [exc |-> TRUE, val |-> CancelledError]
  ELSE [exc |-> TRUE, val |-> InvalidStateError]

\* ----------------------------------------------------------------------
\* Generators.  prog names the generator function, live its position, and
\* the other fields are its arguments and locals.
NoCoro ==
  [prog |-> "none", live |-> "finished", fn |-> "none", cb |-> 0, arg |-> None,
   hasarg |-> FALSE, n |-> 0, rec |-> <<>>]

\* wrapped_callback of call_soon: the callback fn (registration cb, for a done
\* callback; bound to object arg, for a bound method) called with *args, which
\* is the one future arg when hasarg and empty otherwise.
WrappedCallback(fn, cb, arg, hasarg) ==
  [prog |-> "wrapped_callback", live |-> "fresh", fn |-> fn, cb |-> cb,
   arg |-> arg, hasarg |-> hasarg, n |-> 0, rec |-> <<>>]

\* A computation that requests input n times and records each value
\* (print_keys, with the number of requests a parameter).
Recorder(n) ==
  [prog |-> "recorder", live |-> "fresh", fn |-> "none", cb |-> 0, arg |-> None,
   hasarg |-> FALSE, n |-> n, rec |-> <<>>]

\* The computations that take no argument: "outer" awaits a task it creates,
\* "quitter" reads a key and stops the loop, "raiser" raises an error and
\* "supervisor" awaits a task it creates for a raiser.
Computation(prog) ==
  [prog |-> prog, live |-> "fresh", fn |-> "none", cb |-> 0, arg |-> None,
   hasarg |-> FALSE, n |-> 0, rec |-> <<>>]

\* Future.__init__ and Task.__init__
NewFuture(origin) ==
  [kind |-> "Future", origin |-> origin, state |-> FutureWaiting,
   done_callbacks |-> <<>>, awaited_on |-> None, coro |-> NoCoro]

NewTask(coro) ==
  [kind |-> "Task", origin |-> "create_task", state |-> FutureWaiting,
   done_callbacks |-> <<>>, awaited_on |-> None, coro |-> coro]

\* ----------------------------------------------------------------------
\* Operations on a world w = [heap, all_tasks, getch_future, is_stopping,
\* calllog]; calllog lists the done callbacks whose body ran, in order.

SetState(w, o, s) == [w EXCEPT !.heap[o].state = s]

\* EventLoop.create_task
create_task(w, coro) ==
  [w EXCEPT !.heap = Append(@, NewTask(coro)),
            !.all_tasks = Append(@, Len(w.heap) + 1)]

\* EventLoop.call_soon
call_soon(w, fn, cb, arg, hasarg) ==
  create_task(w, WrappedCallback(fn, cb, arg, hasarg))

\* Future._call_done_callbacks: the loop over the copied list.
RECURSIVE schedule_callbacks(_, _, _)
schedule_callbacks(w, cbs, o) ==
  IF cbs = <<>> THEN w
  ELSE schedule_callbacks(call_soon(w, "done_cb", Head(cbs), o, TRUE), Tail(cbs), o)

call_done_callbacks_Twice(w, o) ==
  schedule_callbacks(w, w.heap[o].done_callbacks \o w.heap[o].done_callbacks, o)

call_done_callbacks_Inline(w, o) ==
  [w EXCEPT !.calllog = @ \o w.heap[o].done_callbacks]

call_done_callbacks_Reversed(w, o) ==
  LET cbs == w.heap[o].done_callbacks
  IN  schedule_callbacks(w, [i \in 1..Len(cbs) |-> cbs[Len(cbs) + 1 - i]], o)

call_done_callbacks(w, o) ==
  schedule_callbacks(w, w.heap[o].done_callbacks, o)

\* Future.set_result
set_result_Overwrite(w, o, v) ==
  [w |-> call_done_callbacks(SetState(w, o, FutureResult(v)), o), exc |-> "none"]

set_result(w, o, v) ==
  IF done(w.heap[o].state) THEN [w |-> w, exc |-> "InvalidStateError"]
  ELSE [w |-> call_done_callbacks(SetState(w, o, FutureResult(v)), o),
        exc |-> "none"]

\* Future.set_exception
set_exception(w, o, e) ==
  IF done(w.heap[o].state) THEN [w |-> w, exc |-> "InvalidStateError"]
  ELSE [w |-> call_done_callbacks(SetState(w, o, FutureException(e)), o),
        exc |-> "none"]

\* Future.cancel
Future_cancel(w, o) ==
  IF done(w.heap[o].state) THEN [w |-> w, ret |-> FALSE]
  ELSE [w |-> call_done_callbacks(SetState(w, o, FutureCancelled), o),
        ret |-> TRUE]

\* Task.cancel; cancel(w, o) is o.cancel() with Python's dispatch on the class.
Task_cancel_Immediate(w, o) == Future_cancel(w, o)

RECURSIVE cancel(_, _)
RECURSIVE Task_cancel(_, _)
Task_cancel(w, o) ==
  IF done(w.heap[o].state) THEN [w |-> w, ret |-> FALSE]
  ELSE IF w.heap[o].state.tag # "Cancelling"
    THEN LET w1 == SetState(w, o, TaskCancelling)
             awaited_on == w.heap[o].awaited_on
         IN  IF awaited_on # None
               THEN [w |-> cancel(w1, awaited_on).w, ret |-> TRUE]
               ELSE [w |-> w1, ret |-> TRUE]
    ELSE [w |-> w, ret |-> TRUE]

cancel(w, o) ==
  IF w.heap[o].kind = "Task" THEN Task_cancel(w, o) ELSE Future_cancel(w, o)

\* Future.add_done_callback, for the callback of registration cb.
add_done_callback(w, o, cb) ==
  IF done(w.heap[o].state) THEN call_soon(w, "done_cb", cb, None, FALSE)
  ELSE [w EXCEPT !.heap[o].done_callbacks = Append(@, cb)]

\* EventLoop.stop
stop(w) == [w EXCEPT !.is_stopping = TRUE]

\* EventLoop.getch up to its yield: the future it yields.
getch_Fresh(w) ==
  LET id == Len(w.heap) + 1
  IN  [w |-> [w EXCEPT !.heap = Append(@, NewFuture("getch")),
                       !.getch_future = id],
       fut |-> id]

getch(w) ==
  IF w.getch_future = None
    THEN LET id == Len(w.heap) + 1
         IN  [w |-> [w EXCEPT !.heap = Append(@, NewFuture("getch")),
                              !.getch_future = id],
              fut |-> id]
    ELSE [w |-> w, fut |-> w.getch_future]

\* ----------------------------------------------------------------------
\* The generators' step protocol.  A resume gives [w, out]: out.k is "yield"
\* (of the future out.obj), "return" (of out.val, a StopIteration) or "raise"
\* (of the exception out.val).
Yield(w, o, f) ==
  [w |-> [w EXCEPT !.heap[o].coro.live = "suspended"],
   out |-> [k |-> "yield", obj |-> f, val |-> NoneV]]

Return(w, o, v) ==
  [w |-> [w EXCEPT !.heap[o].coro.live = "finished"],
   out |-> [k |-> "return", obj |-> None, val |-> v]]

Raise(w, o, e) ==
  [w |-> [w EXCEPT !.heap[o].coro.live = "finished"],
   out |-> [k |-> "raise", obj |-> None, val |-> e]]

\* wrapped_callback: callback(*args), then return.
wrapped_callback(w, o) ==
  LET c == w.heap[o].coro
  IN  CASE c.fn = "done_cb" ->
             \* a DoneCallback takes the future: called without it, the call
             \* raises TypeError before the callback's body runs
             IF c.hasarg
               THEN Return([w EXCEPT !.calllog = Append(@, c.cb)], o, NoneV)
               ELSE Raise(w, o, Exc("TypeError"))
        [] c.fn = "stop" -> Return(stop(w), o, NoneV)
        [] c.fn = "cancel" -> Return(cancel(w, c.arg).w, o, NoneV)
        [] OTHER -> Return(w, o, NoneV)

\* The recorder: for each of n requests, next_char = yield from loop.getch().
recorder(w, o, x) ==
  LET c == w.heap[o].coro
      rec == IF c.live = "fresh" THEN c.rec ELSE Append(c.rec, x.i)
      w1 == [w EXCEPT !.heap[o].coro.rec = rec]
  IN  IF Len(rec) >= c.n THEN Return(w1, o, ListV(rec))
      ELSE LET g == getch(w1) IN Yield(g.w, o, g.fut)

\* outer: inner = loop.create_task(...); value = yield inner; return value.
outer(w, o, x) ==
  IF w.heap[o].coro.live = "fresh"
    THEN LET w1 == create_task(w, Recorder(1)) IN Yield(w1, o, Len(w1.heap))
    ELSE Return(w, o, x)

\* supervisor: inner = loop.create_task(raiser()); value = yield inner;
\* return value.
supervisor(w, o, x) ==
  IF w.heap[o].coro.live = "fresh"
    THEN LET w1 == create_task(w, Computation("raiser")) IN Yield(w1, o, Len(w1.heap))
    ELSE Return(w, o, x)

\* quitter: key = yield from loop.getch(); stop_running_loop(); return.
quitter(w, o, x) ==
  IF w.heap[o].coro.live = "fresh"
    THEN LET g == getch(w) IN Yield(g.w, o, g.fut)
    ELSE Return(stop(w), o, NoneV)

\* generator.send(x)
coro_send(w, o, x) ==
  LET c == w.heap[o].coro
  IN  CASE c.prog = "wrapped_callback" -> wrapped_callback(w, o)
        [] c.prog = "recorder" -> recorder(w, o, x)
        [] c.prog = "outer" -> outer(w, o, x)
        [] c.prog = "quitter" -> quitter(w, o, x)
        [] c.prog = "supervisor" -> supervisor(w, o, x)
        [] OTHER -> Raise(w, o, Exc("RuntimeError"))

\* generator.throw(e): none of the computations catches, so e comes back out.
coro_throw(w, o, e) == Raise(w, o, e)

\* Task._step_coro: gives [w, exc], exc the exception it raises to Task.send.
step_coro_Swallow(w, o, mode, x) ==
  IF done(w.heap[o].state) THEN [w |-> w, exc |-> "StopIteration"]
  ELSE LET r == IF mode = "send" THEN coro_send(w, o, x) ELSE coro_throw(w, o, x)
       IN  CASE r.out.k = "yield" ->
                  [w |-> [r.w EXCEPT !.heap[o].awaited_on = r.out.obj],
                   exc |-> "none"]
             [] r.out.k = "return" ->
                  [w |-> set_result(r.w, o, r.out.val).w, exc |-> "StopIteration"]
             [] OTHER ->
                  [w |-> Future_cancel(r.w, o).w, exc |-> "StopIteration"]

step_coro(w, o, mode, x) ==
  IF done(w.heap[o].state) THEN [w |-> w, exc |-> "StopIteration"]
  ELSE LET r == IF mode = "send" THEN coro_send(w, o, x) ELSE coro_throw(w, o, x)
       IN  CASE r.out.k = "yield" ->
                  [w |-> [r.w EXCEPT !.heap[o].awaited_on = r.out.obj],
                   exc |-> "none"]
             [] r.out.k = "return" ->
                  [w |-> set_result(r.w, o, r.out.val).w, exc |-> "StopIteration"]
             [] r.out.val = CancelledError ->
                  [w |-> Future_cancel(r.w, o).w, exc |-> "StopIteration"]
             [] OTHER ->
                  [w |-> set_exception(r.w, o, r.out.val).w,
                   exc |-> "StopIteration"]

\* Task.throw
throw(w, o, e) == step_coro(w, o, "throw", e)

\* Task.send: gives [w, exc]; exc is "AssertionError" when line 210 fails.
send_NoValue(w, o) ==
  IF w.heap[o].state.tag = "Cancelled" THEN throw(w, o, CancelledError)
  ELSE LET awaited_on == w.heap[o].awaited_on
       IN  IF awaited_on # None
             THEN IF ~done(w.heap[awaited_on].state)
                    THEN [w |-> w, exc |-> "AssertionError"]
                    ELSE LET r == result(w.heap[awaited_on].state)
                         IN  IF r.exc THEN throw(w, o, r.val)
                             ELSE step_coro(w, o, "send", NoneV)
             ELSE step_coro(w, o, "send", NoneV)

send_NoForward(w, o) ==
  IF w.heap[o].state.tag = "Cancelled" THEN throw(w, o, CancelledError)
  ELSE LET awaited_on == w.heap[o].awaited_on
       IN  IF awaited_on # None
             THEN IF ~done(w.heap[awaited_on].state)
                    THEN [w |-> w, exc |-> "AssertionError"]
                    ELSE LET r == result(w.heap[awaited_on].state)
                         IN  IF r.exc THEN step_coro(w, o, "send", NoneV)
                             ELSE step_coro(w, o, "send", r.val)
             ELSE step_coro(w, o, "send", NoneV)

send(w, o) ==
  IF w.heap[o].state.tag = "Cancelled" THEN throw(w, o, CancelledError)
  ELSE LET awaited_on == w.heap[o].awaited_on
       IN  IF awaited_on # None
             THEN IF ~done(w.heap[awaited_on].state)
                    THEN [w |-> w, exc |-> "AssertionError"]
                    ELSE LET r == result(w.heap[awaited_on].state)
                         IN  IF r.exc THEN throw(w, o, r.val)
                             ELSE step_coro(w, o, "send", r.val)
             ELSE step_coro(w, o, "send", NoneV)

\* Task._is_send_ready
is_send_ready(w, o) ==
  IF done(w.heap[o].state) THEN FALSE
  ELSE IF w.heap[o].state.tag = "Cancelling" THEN TRUE
  ELSE IF w.heap[o].awaited_on = None THEN TRUE
  ELSE done(w.heap[w.heap[o].awaited_on].state)

\* ----------------------------------------------------------------------
\* The state.
VARIABLES
  heap,              \* the objects: Future and Task instances
  all_tasks,         \* EventLoop._all_tasks
  send_ready_tasks,  \* EventLoop._send_ready_tasks
  getch_future,      \* EventLoop._getch_future
  is_stopping,       \* EventLoop._is_stopping
  is_waiting,        \* EventLoop._is_waiting
  calllog,           \* the done callbacks whose body ran, in order
  pc,                \* where the main thread is
  iter,              \* _step_send_ready_tasks: what is left of cut(...)
  target,            \* run_until_complete: its argument future
  ret,               \* how the last run_until_complete ended
  next_ch,           \* _set_getch_result: next_ch
  reads,             \* the values stdscr.getch() has returned
  last,              \* the application's last call, when it was one on a future, and its outcome
  ncbs,              \* done callbacks registered so far
  runs,              \* run_until_complete invocations so far
  nops,              \* calls the application has made so far, registrations and reads apart
  tpc,               \* where the timer thread is in call_soon_threadsafe
  tcalls,            \* call_soon_threadsafe calls so far
  tsafe,             \* the task the timer thread enqueued; the flag, and whether
                     \* the main thread was inside stdscr.getch(), at that moment
  sig                \* a SIGINT sent and not yet delivered

vars ==
  <<heap, all_tasks, send_ready_tasks, getch_future, is_stopping, is_waiting,
    calllog, pc, iter, target, ret, next_ch, reads, last, ncbs, runs, nops,
    tpc, tcalls, tsafe, sig>>

loopvars == <<pc, iter, target, ret, next_ch, reads, send_ready_tasks, is_waiting, runs>>
threadvars == <<tpc, tcalls, tsafe, sig>>

World ==
  [heap |-> heap, all_tasks |-> all_tasks, getch_future |-> getch_future,
   is_stopping |-> is_stopping, calllog |-> calllog]

\* The world after an operation, within the bound on objects.
Becomes(w) ==
  /\ Len(w.heap) <= MaxObj
  /\ heap' = w.heap
  /\ all_tasks' = w.all_tasks
  /\ getch_future' = w.getch_future
  /\ is_stopping' = w.is_stopping
  /\ calllog' = w.calllog

Objects == 1..Len(heap)

NoCall == [op |-> "none", obj |-> None, exc |-> "none", val |-> NoneV, flag |-> FALSE]
Call(op, o, exc, val, flag) ==
  [op |-> op, obj |-> o, exc |-> exc, val |-> val, flag |-> flag]

NoRet == [k |-> "none", val |-> NoneV]
Returned(v) == [k |-> "return", val |-> v]
Raised(e) == [k |-> "raise", val |-> e]

\* EventLoop.__init__, and the threads before they start.
Init ==
  /\ heap = <<>>
  /\ all_tasks = <<>>
  /\ send_ready_tasks = <<>>
  /\ getch_future = None
  /\ is_stopping = FALSE
  /\ is_waiting = FALSE
  /\ calllog = <<>>
  /\ pc = "idle"
  /\ iter = <<>>
  /\ target = None
  /\ ret = NoRet
  /\ next_ch = 0
  /\ reads = <<>>
  /\ last = NoCall
  /\ ncbs = 0
  /\ runs = 0
  /\ nops = 0
  /\ tpc = "idle"
  /\ tcalls = 0
  /\ tsafe = [task |-> None, waiting |-> FALSE, inread |-> FALSE]
  /\ sig = FALSE

\* ----------------------------------------------------------------------
\* The application's calls, made on the main thread outside the run loop.

\* One more call of the application, within the bound.
AppCall ==
  /\ pc = "idle"
  /\ nops < MaxOps
  /\ nops' = nops + 1

\* loop.create_future()
CreateFuture ==
  /\ AppCall
  /\ Becomes([World EXCEPT !.heap = Append(@, NewFuture("user"))])
  /\ last' = NoCall
  /\ UNCHANGED <<loopvars, threadvars, ncbs>>

\* loop.create_task(coro)
CreateTask(coro) ==
  /\ AppCall
  /\ Becomes(create_task(World, coro))
  /\ last' = NoCall
  /\ UNCHANGED <<loopvars, threadvars, ncbs>>

\* loop.call_soon(loop.stop) and loop.call_soon(o.cancel)
CallSoon(fn, o) ==
  /\ AppCall
  /\ Becomes(call_soon(World, fn, 0, o, FALSE))
  /\ last' = NoCall
  /\ UNCHANGED <<loopvars, threadvars, ncbs>>

\* f.set_result(v)
SetResult(f, v) ==
  /\ AppCall
  /\ LET r == set_result(World, f, IntV(v))
     IN  /\ Becomes(r.w)
         /\ last' = Call("set_result", f, r.exc, IntV(v), FALSE)
  /\ UNCHANGED <<loopvars, threadvars, ncbs>>

\* f.set_exception(RuntimeError())
SetException(f) ==
  /\ AppCall
  /\ LET r == set_exception(World, f, Exc("RuntimeError"))
     IN  /\ Becomes(r.w)
         /\ last' = Call("set_exception", f, r.exc, NoneV, FALSE)
  /\ UNCHANGED <<loopvars, threadvars, ncbs>>

\* o.cancel()
Cancel(o) ==
  /\ AppCall
  /\ LET r == cancel(World, o)
     IN  /\ Becomes(r.w)
         /\ last' = Call("cancel", o, "none", NoneV, r.ret)
  /\ UNCHANGED <<loopvars, threadvars, ncbs>>

\* o.result()
Result(o) ==
  /\ pc = "idle"
  /\ LET r == result(heap[o].state)
     IN  last' = Call("result", o, IF r.exc THEN r.val.k ELSE "none", r.val, FALSE)
  /\ UNCHANGED <<heap, all_tasks, getch_future, is_stopping, calllog, loopvars,
                 threadvars, ncbs, nops>>

\* o.add_done_callback(callback), callback a function not registered before
AddDoneCallback(o) ==
  /\ pc = "idle"
  /\ ncbs < MaxCbs
  /\ ncbs' = ncbs + 1
  /\ Becomes(add_done_callback(World, o, ncbs + 1))
  /\ last' = Call("add_done_callback", o, "none", NoneV, FALSE)
  /\ UNCHANGED <<loopvars, threadvars, nops>>

\* ----------------------------------------------------------------------
\* EventLoop.run_until_complete, a step at a time.  pc is "idle" outside it,
\* "top" at line 302, "branch" at line 305, "wait" inside stdscr.getch(),
\* "got" when getch has returned and next_ch is not yet assigned, "step" in
\* the loop of _step_send_ready_tasks, "check" at line 309, and "dead" once
\* KeyboardInterrupt has ended the program.

Range(seq) == {seq[i] : i \in 1..Len(seq)}

\* list.remove
RECURSIVE Remove(_, _)
Remove(seq, x) ==
  IF seq = <<>> THEN <<>>
  ELSE IF Head(seq) = x THEN Tail(seq)
  ELSE <<Head(seq)>> \o Remove(Tail(seq), x)

\* An exception leaving run_until_complete through its finally clause.
Escapes(w, e) ==
  /\ Becomes([w EXCEPT !.is_stopping = FALSE])
  /\ pc' = "idle"
  /\ iter' = <<>>
  /\ ret' = Raised(e)

\* loop.run_until_complete(future)
RunUntilComplete(f) ==
  /\ pc = "idle"
  /\ nops < MaxOps
  /\ nops' = nops + 1
  /\ runs < MaxRuns
  /\ runs' = runs + 1
  /\ pc' = "top"
  /\ target' = f
  /\ ret' = NoRet
  /\ last' = NoCall
  /\ UNCHANGED <<heap, all_tasks, getch_future, is_stopping, calllog, iter,
                 next_ch, reads, send_ready_tasks, is_waiting, threadvars, ncbs>>

\* lines 302-304: the readiness scan
Scan_NoSnapshot ==
  /\ pc = "top"
  /\ send_ready_tasks' = send_ready_tasks \o all_tasks
  /\ pc' = "branch"
  /\ UNCHANGED <<heap, all_tasks, getch_future, is_stopping, calllog, iter,
                 target, ret, next_ch, reads, is_waiting, runs, last, ncbs, nops,
                 threadvars>>

Scan ==
  /\ pc = "top"
  /\ send_ready_tasks' =
       send_ready_tasks \o SelectSeq(all_tasks, LAMBDA t : is_send_ready(World, t))
  /\ pc' = "branch"
  /\ UNCHANGED <<heap, all_tasks, getch_future, is_stopping, calllog, iter,
                 target, ret, next_ch, reads, is_waiting, runs, last, ncbs, nops,
                 threadvars>>

\* lines 305-306 and 382-386: nothing is ready, so flag and enter the read
EnterGetch_Unguarded ==
  /\ pc = "branch"
  /\ is_waiting' = TRUE
  /\ pc' = "wait"
  /\ UNCHANGED <<heap, all_tasks, getch_future, is_stopping, calllog, iter,
                 target, ret, next_ch, reads, send_ready_tasks, runs, last, ncbs, nops,
                 threadvars>>

EnterGetch ==
  /\ pc = "branch"
  /\ send_ready_tasks = <<>>
  /\ is_waiting' = TRUE
  /\ pc' = "wait"
  /\ UNCHANGED <<heap, all_tasks, getch_future, is_stopping, calllog, iter,
                 target, ret, next_ch, reads, send_ready_tasks, runs, last, ncbs, nops,
                 threadvars>>

\* stdscr.getch() returns an event code
GetchReturns(ch) ==
  /\ pc = "wait"
  /\ Len(reads) < MaxReads
  /\ next_ch' = ch
  /\ reads' = Append(reads, ch)
  /\ pc' = "got"
  /\ UNCHANGED <<heap, all_tasks, getch_future, is_stopping, calllog, iter,
                 target, ret, send_ready_tasks, is_waiting, runs, last, ncbs, nops,
                 threadvars>>

\* lines 388-391: SIGINT arrives inside the try; KeyboardInterrupt is caught
GetchInterrupted_Fails ==
  /\ pc \in {"wait", "got"}
  /\ sig
  /\ sig' = FALSE
  /\ is_waiting' = FALSE
  /\ pc' = "check"
  /\ IF getch_future = None
       THEN UNCHANGED <<heap, all_tasks, getch_future, is_stopping, calllog>>
       ELSE Becomes(set_exception(World, getch_future, Exc("KeyboardInterrupt")).w)
  /\ UNCHANGED <<iter, target, ret, next_ch, reads, send_ready_tasks, runs, last,
                 ncbs, nops, tpc, tcalls, tsafe>>

GetchInterrupted ==
  /\ pc \in {"wait", "got"}
  /\ sig
  /\ sig' = FALSE
  /\ is_waiting' = FALSE
  /\ pc' = "check"
  /\ UNCHANGED <<heap, all_tasks, getch_future, is_stopping, calllog, iter,
                 target, ret, next_ch, reads, send_ready_tasks, runs, last, ncbs, nops,
                 tpc, tcalls, tsafe>>

\* lines 390-396: the read returned; resolve the recorded future
SetGetchResult ==
  /\ pc = "got"
  /\ is_waiting' = FALSE
  /\ IF getch_future = None
       THEN /\ pc' = "check"
            /\ UNCHANGED <<heap, all_tasks, getch_future, is_stopping, calllog,
                           iter, ret>>
       ELSE LET r == set_result(World, getch_future, IntV(next_ch))
            IN  IF r.exc = "none"
                  THEN /\ Becomes([r.w EXCEPT !.getch_future = None])
                       /\ pc' = "check"
                       /\ UNCHANGED <<iter, ret>>
                  ELSE Escapes(r.w, InvalidStateError)
  /\ UNCHANGED <<target, next_ch, reads, send_ready_tasks, runs, last, ncbs, nops,
                 threadvars>>

\* lines 307-308 and 319: cut(self._send_ready_tasks)
Cut ==
  /\ pc = "branch"
  /\ send_ready_tasks # <<>>
  /\ iter' = send_ready_tasks
  /\ send_ready_tasks' = <<>>
  /\ pc' = "step"
  /\ UNCHANGED <<heap, all_tasks, getch_future, is_stopping, calllog, target,
                 ret, next_ch, reads, is_waiting, runs, last, ncbs, nops, threadvars>>

\* lines 319-323: one turn of the loop over the ready tasks
Step ==
  /\ pc = "step"
  /\ iter # <<>>
  /\ LET task == Head(iter)
         r == send(World, task)
         after == IF Len(iter) = 1 THEN "check" ELSE "step"
     IN  CASE r.exc = "none" ->
                /\ Becomes(r.w)
                /\ iter' = Tail(iter)
                /\ pc' = after
                /\ ret' = ret
           [] r.exc = "StopIteration" /\ task \in Range(r.w.all_tasks) ->
                /\ Becomes([r.w EXCEPT !.all_tasks = Remove(@, task)])
                /\ iter' = Tail(iter)
                /\ pc' = after
                /\ ret' = ret
           [] r.exc = "StopIteration" /\ task \notin Range(r.w.all_tasks) ->
                Escapes(r.w, Exc("ValueError"))
           [] OTHER -> Escapes(r.w, Exc(r.exc))
  /\ UNCHANGED <<target, next_ch, reads, send_ready_tasks, is_waiting, runs,
                 last, ncbs, nops, threadvars>>

\* lines 309-315
Check ==
  /\ pc = "check"
  /\ IF done(heap[target].state)
       THEN LET r == result(heap[target].state)
            IN  /\ ret' = IF r.exc THEN Raised(r.val) ELSE Returned(r.val)
                /\ pc' = "idle"
                /\ is_stopping' = FALSE
       ELSE IF is_stopping
         THEN /\ ret' = Returned(NoneV)
              /\ pc' = "idle"
              /\ is_stopping' = FALSE
         ELSE /\ pc' = "top"
              /\ UNCHANGED <<ret, is_stopping>>
  /\ UNCHANGED <<heap, all_tasks, getch_future, calllog, iter, target, next_ch,
                 reads, send_ready_tasks, is_waiting, runs, last, ncbs, nops,
                 threadvars>>

\* SIGINT arrives while the main thread is in run_until_complete and outside
\* the try of _set_getch_result: KeyboardInterrupt leaves run_until_complete
SigEscapes ==
  /\ pc \in {"top", "branch", "step", "check"}
  /\ sig
  /\ sig' = FALSE
  /\ Escapes(World, Exc("KeyboardInterrupt"))
  /\ UNCHANGED <<target, next_ch, reads, send_ready_tasks, is_waiting, runs,
                 last, ncbs, nops, tpc, tcalls, tsafe>>

\* SIGINT arrives while the main thread is outside run_until_complete
SigKills ==
  /\ pc = "idle"
  /\ sig
  /\ sig' = FALSE
  /\ pc' = "dead"
  /\ UNCHANGED <<heap, all_tasks, getch_future, is_stopping, calllog, iter,
                 target, ret, next_ch, reads, send_ready_tasks, is_waiting, runs,
                 last, ncbs, nops, tpc, tcalls, tsafe>>

\* ----------------------------------------------------------------------
\* EventLoop.call_soon_threadsafe on the timer thread, a step at a time.

\* line 370
ThreadCallSoon ==
  /\ tpc = "idle"
  /\ pc # "dead"
  /\ tcalls < MaxThreadCalls
  /\ tcalls' = tcalls + 1
  /\ Becomes(call_soon(World, "noop", 0, None, FALSE))
  /\ tsafe' = [task |-> Len(heap) + 1, waiting |-> is_waiting,
               inread |-> (pc = "wait")]
  /\ tpc' = "enqueued"
  /\ UNCHANGED <<loopvars, last, ncbs, nops, sig>>

\* line 371
ThreadReadsFlag ==
  /\ tpc = "enqueued"
  /\ tpc' = IF is_waiting THEN "kill" ELSE "idle"
  /\ UNCHANGED <<heap, all_tasks, getch_future, is_stopping, calllog, loopvars,
                 last, ncbs, nops, tcalls, tsafe, sig>>

\* line 372
ThreadKills ==
  /\ tpc = "kill"
  /\ sig' = TRUE
  /\ tpc' = "idle"
  /\ UNCHANGED <<heap, all_tasks, getch_future, is_stopping, calllog, loopvars,
                 last, ncbs, nops, tcalls, tsafe>>

\* ----------------------------------------------------------------------
Computations ==
  {Recorder(n) : n \in 1..MaxReads}
    \cup {Computation(p) : p \in {"outer", "quitter", "raiser", "supervisor"}}

UserFutures == {o \in Objects : heap[o].origin = "user"}

\* run_until_complete and what it calls, on the main thread
Loop ==
  \/ Scan
  \/ EnterGetch
  \/ \E ch \in Keys : GetchReturns(ch)
  \/ SetGetchResult
  \/ Cut
  \/ Step
  \/ Check

\* SIGINT reaching the main thread
Signal ==
  \/ GetchInterrupted
  \/ SigEscapes
  \/ SigKills

\* the timer thread
Thread ==
  \/ ThreadCallSoon
  \/ ThreadReadsFlag
  \/ ThreadKills

\* An application that submits computations, schedules callbacks, cancels and
\* runs the loop, with a timer thread beside it.
Next ==
  \/ \E c \in Computations : CreateTask(c)
  \/ CallSoon("stop", None)
  \/ \E o \in Objects : CallSoon("cancel", o)
  \/ \E o \in Objects : Cancel(o)
  \/ \E f \in Objects : RunUntilComplete(f)
  \/ Loop
  \/ Signal
  \/ Thread

Spec == Init /\ [][Next]_vars

\* An application that works on futures of its own: it completes, fails,
\* cancels and reads them, registers done callbacks and runs the loop.
NextFuture ==
  \/ CreateFuture
  \/ \E f \in UserFutures, v \in Keys : SetResult(f, v)
  \/ \E f \in UserFutures : SetException(f)
  \/ \E o \in Objects : Cancel(o)
  \/ \E o \in Objects : Result(o)
  \/ \E o \in Objects : AddDoneCallback(o)
  \/ \E f \in Objects : RunUntilComplete(f)
  \/ Loop

SpecFuture == Init /\ [][NextFuture]_vars

\* ----------------------------------------------------------------------
\* Properties.

Count(seq, x) == Cardinality({i \in 1..Len(seq) : seq[i] = x})

Tasks == {o \in Objects : heap[o].kind = "Task"}

\* This step is a call the application makes (one that counts).
Called(op) == nops' = nops + 1 /\ last'.op = op

\* This step is the loop of _step_send_ready_tasks sending to task t.
Stepped(t) ==
  /\ pc = "step"
  /\ iter # <<>>
  /\ Head(iter) = t
  /\ \/ pc' \in {"step", "check"} /\ iter' = Tail(iter)
     \/ pc' = "idle" /\ ret'.k = "raise" /\ ret'.val.k # "KeyboardInterrupt"

\* C1, as the specification states it: on a future that is already done,
\* every further set_result, set_exception or cancel signals
\* InvalidStateError and leaves the state as it is.
C1_SecondCallSignalsInvalidState ==
  [][\A f \in Objects :
       (/\ heap[f].kind = "Future"
        /\ done(heap[f].state)
        /\ last'.obj = f
        /\ Called("set_result") \/ Called("set_exception") \/ Called("cancel"))
       => /\ last'.exc = "InvalidStateError"
          /\ heap'[f].state = heap[f].state]_vars

\* C1, amended: the first set_result, set_exception or cancel on a pending
\* future succeeds and stores its outcome; on a done future set_result and
\* set_exception signal InvalidStateError, cancel returns False without
\* signalling, and none of them changes the stored state; no step of the
\* program changes the state of a done future or task.
C1_SingleAssignment ==
  /\ [][\A o \in Objects :
          done(heap[o].state) => heap'[o].state = heap[o].state]_vars
  /\ [][\A f \in Objects :
          (heap[f].kind = "Future" /\ last'.obj = f) =>
            /\ Called("set_result") =>
                 IF done(heap[f].state)
                   THEN last'.exc = "InvalidStateError"
                   ELSE /\ last'.exc = "none"
                        /\ heap'[f].state = FutureResult(last'.val)
            /\ Called("set_exception") =>
                 IF done(heap[f].state)
                   THEN last'.exc = "InvalidStateError"
                   ELSE /\ last'.exc = "none"
                        /\ heap'[f].state = FutureException(Exc("RuntimeError"))
            /\ Called("cancel") =>
                 /\ last'.exc = "none"
                 /\ last'.flag = ~done(heap[f].state)
                 /\ ~done(heap[f].state) => heap'[f].state = FutureCancelled]_vars

\* A second call was refused: set_result signalled InvalidStateError on a
\* future that cancel had already settled.
C1_Witness ==
  /\ last.op = "set_result"
  /\ last.exc = "InvalidStateError"
  /\ heap[last.obj].state = FutureCancelled

\* C2: result() signals InvalidStateError on a pending future, returns the
\* value of a completed one, re-raises the error of a failed one and signals
\* CancelledError on a cancelled one; the call changes no object, so that a
\* repeated result() gives the same outcome.
C2_ResultReadsState ==
  [][(last'.op = "result" /\ pc = "idle" /\ pc' = "idle" /\ nops' = nops) =>
       LET s == heap[last'.obj].state
       IN  /\ heap' = heap
           /\ s.tag \in {"Waiting", "Cancelling"} =>
                last'.exc = "InvalidStateError"
           /\ s.tag = "Result" => last'.exc = "none" /\ last'.val = s.val
           /\ s.tag = "Exception" =>
                last'.exc = s.val.k /\ last'.val = s.val
           /\ s.tag = "Cancelled" => last'.exc = "CancelledError"]_vars

\* result() re-raised the error a future failed with.
C2_Witness ==
  /\ last.op = "result"
  /\ last.exc = "RuntimeError"
  /\ heap[last.obj].state.tag = "Exception"

\* The tasks call_soon made for the done callback of registration k.
CallbackTasks(k) ==
  {t \in Tasks : heap[t].coro.prog = "wrapped_callback"
                   /\ heap[t].coro.fn = "done_cb" /\ heap[t].coro.cb = k}

\* C3: a done callback registered on a pending future or task runs at most
\* once, and only once its future is done; completing, failing or cancelling
\* the future only schedules one task for it, and the callback's body runs
\* when the loop later steps that task, exactly once when the task has
\* finished; add_done_callback on a future that is already done schedules a
\* task for the callback and does not run it.
C3_CallbacksRunOnceAsTasks ==
  /\ [](\A k \in 1..ncbs :
         /\ Count(calllog, k) <= 1
         /\ \A o \in Objects :
              k \in Range(heap[o].done_callbacks) =>
                /\ k \in Range(calllog) => done(heap[o].state)
                /\ Cardinality(CallbackTasks(k)) =
                     IF done(heap[o].state) THEN 1 ELSE 0
                /\ \A t \in CallbackTasks(k) :
                     /\ heap[t].coro.hasarg /\ heap[t].coro.arg = o
                     /\ heap[t].state.tag = "Result" => Count(calllog, k) = 1
                     /\ heap[t].coro.live = "fresh" => Count(calllog, k) = 0)
  /\ [][/\ \A o \in Objects :
            (~done(heap[o].state) /\ done(heap'[o].state)) =>
              \A k \in Range(heap[o].done_callbacks) : k \notin Range(calllog')
        /\ calllog' # calllog =>
             \E t \in Tasks :
               /\ Stepped(t)
               /\ heap[t].coro.prog = "wrapped_callback"
               /\ calllog' = Append(calllog, heap[t].coro.cb)
        /\ (last'.op = "add_done_callback" /\ ncbs' = ncbs + 1) =>
             /\ calllog' = calllog
             /\ IF done(heap[last'.obj].state)
                  THEN /\ Len(heap') = Len(heap) + 1
                       /\ heap'[Len(heap')].coro =
                            WrappedCallback("done_cb", ncbs', None, FALSE)
                       /\ heap'[Len(heap')].state = FutureWaiting
                       /\ all_tasks' = Append(all_tasks, Len(heap'))
                  ELSE heap'[last'.obj].done_callbacks =
                         Append(heap[last'.obj].done_callbacks, ncbs')]_vars

\* A callback registered on a future before it was settled has run, and the
\* task that ran it has finished.
C3_Witness ==
  \E o \in Objects :
    /\ heap[o].kind = "Future"
    /\ done(heap[o].state)
    /\ heap[o].done_callbacks # <<>>
    /\ Head(heap[o].done_callbacks) \in Range(calllog)
    /\ \A t \in CallbackTasks(Head(heap[o].done_callbacks)) :
         heap[t].state.tag = "Result"

\* The futures EventLoop.getch created.
InputFutures == {o \in Objects : heap[o].origin = "getch"}

\* C4: every pending future made by getch is the one recorded in
\* _getch_future, so at most one is outstanding; a getch while a future is
\* recorded yields that same future, and one while none is recorded yields a
\* new pending future and records it; a read that returns resolves the
\* recorded pending future with the value read and clears the record; and an
\* unfinished task awaiting a resolved input future is resumed with that
\* future's value.
C4_Coalescing ==
  /\ [](\A o \in InputFutures : ~done(heap[o].state) => o = getch_future)
  /\ [][/\ \A t \in Tasks :
            (/\ Stepped(t)
             /\ heap'[t].awaited_on # heap[t].awaited_on
             /\ heap'[heap'[t].awaited_on].origin = "getch") =>
              /\ heap'[t].awaited_on = getch_future'
              /\ IF getch_future # None
                   THEN getch_future' = getch_future
                   ELSE /\ getch_future' = Len(heap) + 1
                        /\ heap'[getch_future'].state = FutureWaiting
        /\ \A t \in Tasks :
            (/\ Stepped(t)
             /\ ~done(heap[t].state)
             /\ heap[t].coro.prog = "recorder"
             /\ heap[t].awaited_on \in InputFutures
             /\ heap[heap[t].awaited_on].state.tag = "Result") =>
              heap'[t].coro.rec =
                Append(heap[t].coro.rec, heap[heap[t].awaited_on].state.val.i)
        /\ (/\ pc = "got" /\ pc' = "check" /\ sig' = sig
            /\ getch_future # None
            /\ ~done(heap[getch_future].state)) =>
             /\ heap'[getch_future].state = FutureResult(IntV(next_ch))
             /\ next_ch = reads[Len(reads)]
             /\ getch_future' = None]_vars

\* Two tasks awaited the same input future and each finished with the one
\* value it was resolved with.
C4_Witness ==
  \E t1, t2 \in Tasks :
    /\ t1 # t2
    /\ heap[t1].awaited_on = heap[t2].awaited_on
    /\ heap[t1].awaited_on \in InputFutures
    /\ heap[heap[t1].awaited_on].state.tag = "Result"
    /\ heap[t1].state =
         FutureResult(ListV(<<heap[heap[t1].awaited_on].state.val.i>>))
    /\ heap[t2].state = heap[t1].state

\* The application has submitted one computation, a recorder, and nothing
\* else has made a task.
OnlyTask(t) == Tasks = {t} /\ heap[t].coro.prog = "recorder"

\* C5: when the only task is a recorder of n requests, what it has recorded is
\* always the values the read returned so far, in order (at most the last one
\* not yet delivered while the task is unfinished); the task completes with the
\* list of the first n values read, and run_until_complete on it returns it.
C5_DeliversReadsInOrder ==
  \A t \in Objects :
    OnlyTask(t) =>
      LET c == heap[t].coro
      IN  /\ Len(c.rec) <= Len(reads)
          /\ c.rec = SubSeq(reads, 1, Len(c.rec))
          /\ ~done(heap[t].state) => Len(reads) <= Len(c.rec) + 1
          /\ heap[t].state.tag = "Result" =>
               heap[t].state.val = ListV(SubSeq(reads, 1, c.n))
          /\ (pc = "idle" /\ runs > 0 /\ target = t /\ ret.k = "return") =>
               ret.val = ListV(SubSeq(reads, 1, c.n))

\* Reads 65, 10, 7: run_until_complete on the only task returned [65, 10, 7].
C5_Witness ==
  \E t \in Objects :
    /\ OnlyTask(t)
    /\ pc = "idle"
    /\ target = t
    /\ reads = <<65, 10, 7>>
    /\ ret = Returned(ListV(<<65, 10, 7>>))

\* C6: when a task on which cancel() was called before its first step (it
\* is cancelling, its generator has not started and it awaits nothing) is
\* stepped, the step throws CancelledError into the generator instead of
\* starting it, the task is cancelled by that step, and result() on it then
\* signals CancelledError.
C6_FirstStepCancels ==
  [][\A t \in Tasks :
       (/\ Stepped(t)
        /\ heap[t].state = TaskCancelling
        /\ heap[t].coro.live = "fresh"
        /\ heap[t].awaited_on = None) =>
         /\ cancelled(heap'[t].state)
         /\ heap'[t].awaited_on = None
         /\ result(heap'[t].state) = [exc |-> TRUE, val |-> CancelledError]]_vars

\* C7: cancel() on a task that awaits a pending task requests the cancellation
\* of the awaited task too; the awaiting task stays unfinished until the loop
\* steps it; and that step, taken once the awaited task's cancellation is
\* requested and wherever the two tasks stand in _all_tasks, raises nothing
\* out of the loop and leaves the awaiting task done.
C7_CascadeThenStep ==
  [][\A t \in Tasks :
       LET inner == heap[t].awaited_on
       IN  (inner # None /\ heap[inner].kind = "Task") =>
             /\ (heap[t].state = FutureWaiting /\ heap'[t].state = TaskCancelling
                 /\ ~done(heap[inner].state)) =>
                  heap'[inner].state \in {TaskCancelling, FutureCancelled}
             /\ (heap[t].state = TaskCancelling /\ done(heap'[t].state)) =>
                  Stepped(t)
             /\ (heap[t].state = TaskCancelling /\ heap[inner].state # FutureWaiting
                 /\ Stepped(t)) =>
                  /\ pc' # "idle"
                  /\ done(heap'[t].state)]_vars

\* C8: while the task that call_soon_threadsafe enqueued, at a moment when the
\* loop was flagged waiting and the main thread was inside stdscr.getch(), has
\* not run, no task is resumed with the value of an input future.
C8_CallbackBeforeNextInput ==
  [][(/\ tsafe.task # None
      /\ tsafe.waiting
      /\ tsafe.inread
      /\ heap[tsafe.task].coro.live = "fresh") =>
       \A t \in Tasks :
         (/\ Stepped(t)
          /\ t # tsafe.task
          /\ ~done(heap[t].state)
          /\ heap[t].awaited_on \in InputFutures) =>
           heap[heap[t].awaited_on].state.tag # "Result"]_vars

\* C9: a step of a task other than the target never ends
\* run_until_complete: whatever the step raises is kept in the task, and a
\* task the step leaves done is dropped from _all_tasks.
C9_OtherTasksNeverAbort ==
  [][\A t \in Tasks :
       (Stepped(t) /\ t # target) =>
         /\ pc' # "idle"
         /\ done(heap'[t].state) => t \notin Range(all_tasks')]_vars

\* C10: once stop() has been called during a pass, the loop goes on to send
\* to each task that is left of the pass, in order, and after the last one
\* run_until_complete returns: the target's outcome when the target is done,
\* None otherwise; it does not scan or read again.
C10_StopEndsAfterThePass ==
  [][(is_stopping /\ (pc' # pc \/ iter' # iter)) =>
       /\ (pc = "step" /\ iter # <<>>) =>
            /\ iter' = Tail(iter)
            /\ pc' = IF iter' = <<>> THEN "check" ELSE "step"
       /\ pc = "check" =>
            /\ pc' = "idle"
            /\ ret' = IF done(heap[target].state)
                        THEN (IF result(heap[target].state).exc
                                THEN Raised(result(heap[target].state).val)
                                ELSE Returned(result(heap[target].state).val))
                        ELSE Returned(NoneV)]_vars

\* C11: the blocking read is entered only from the branch of line 305, and
\* only when _send_ready_tasks is empty there; the scan of lines 302-304 puts
\* every send-ready task of _all_tasks into that list and nothing changes the
\* list between the scan and the branch, so the read is entered only in an
\* iteration whose scan found no send-ready task; with a task in the list the
\* branch does not read, and what it does is take the whole list for stepping.
C11_ReadOnlyWhenNothingReady ==
  /\ [][(pc = "top" /\ pc' = "branch") =>
          /\ \A t \in Range(all_tasks) :
               is_send_ready(World, t) => t \in Range(send_ready_tasks')
          /\ (\E t \in Range(all_tasks) : is_send_ready(World, t)) =>
               send_ready_tasks' # <<>>]_vars
  /\ [][(pc = "branch" /\ pc' = "branch") =>
          send_ready_tasks' = send_ready_tasks]_vars
  /\ [][(pc # "wait" /\ pc' = "wait") =>
          /\ pc = "branch"
          /\ send_ready_tasks = <<>>
          /\ iter' = iter /\ heap' = heap /\ all_tasks' = all_tasks]_vars
  /\ [][(pc # "got" /\ pc' = "got") => pc = "wait"]_vars
  /\ [][(pc = "branch" /\ send_ready_tasks # <<>>) =>
          /\ pc' \notin {"wait", "got"}
          /\ reads' = reads
          /\ pc' = "step" => (iter' = send_ready_tasks /\ send_ready_tasks' = <<>>)]_vars
  /\ [][pc' = "step" => pc \in {"branch", "step"}]_vars

\* The loop is inside the read for the second time, after a pass that
\* stepped a task, and no task of _all_tasks is send-ready.
C11_Witness ==
  /\ pc = "wait"
  /\ Len(reads) >= 1
  /\ all_tasks # <<>>
  /\ \A t \in Range(all_tasks) :
       ~is_send_ready(World, t) /\ heap[t].coro.live = "suspended"

\* C12: when two done callbacks are registered on the same future or task,
\* the one registered later has run only if the one registered earlier ran
\* before it; each body runs in a step of the loop that sends to the task
\* call_soon made for that callback, one body in a step, and the step in
\* which the future becomes done runs none of its callbacks: it makes one
\* task for each, appended to _all_tasks in registration order.
C12_CallbacksInRegistrationOrder ==
  /\ [](\A o \in Objects :
         \A a, b \in 1..Len(heap[o].done_callbacks) :
           (a < b /\ heap[o].done_callbacks[b] \in Range(calllog)) =>
             \E i, j \in 1..Len(calllog) :
               /\ i < j
               /\ calllog[i] = heap[o].done_callbacks[a]
               /\ calllog[j] = heap[o].done_callbacks[b])
  /\ [][calllog' # calllog =>
          /\ Len(calllog') = Len(calllog) + 1
          /\ SubSeq(calllog', 1, Len(calllog)) = calllog
          /\ \E t \in CallbackTasks(calllog'[Len(calllog')]) :
               /\ Stepped(t)
               /\ heap[t].coro.live = "fresh"
               /\ heap'[t].coro.live = "finished"
               /\ done(heap[heap[t].coro.arg].state)]_vars
  /\ [][\A o \in Objects :
          (~done(heap[o].state) /\ done(heap'[o].state)
             /\ heap[o].done_callbacks # <<>>) =>
            /\ \A k \in Range(heap[o].done_callbacks) :
                 Count(calllog', k) = Count(calllog, k)
            /\ Len(heap') = Len(heap) + Len(heap[o].done_callbacks)
            /\ \A a \in 1..Len(heap[o].done_callbacks) :
                 /\ heap'[Len(heap) + a].coro =
                      WrappedCallback("done_cb", heap[o].done_callbacks[a], o, TRUE)
                 /\ all_tasks'[Len(all_tasks') - Len(heap[o].done_callbacks) + a] =
                      Len(heap) + a]_vars

\* Two callbacks registered on one future, in the order 1 then 2, have both
\* run, 1 before 2, each in a task of its own that has finished.
C12_Witness ==
  \E o \in Objects :
    /\ heap[o].kind = "Future"
    /\ heap[o].done_callbacks = <<1, 2>>
    /\ calllog = <<1, 2>>
    /\ \A k \in {1, 2} :
         \E t \in CallbackTasks(k) : heap[t].state = FutureResult(NoneV)
    /\ CallbackTasks(1) \cap CallbackTasks(2) = {}

\* C13: the scan leaves in _send_ready_tasks the send-ready tasks of
\* _all_tasks, each once and in the order of _all_tasks; the pass takes that
\* list and sends to its tasks one after the other, going on to the next one
\* after each until the list is exhausted; and a task created while the pass
\* is stepping is not in the list of that pass.
C13_SnapshotStepping ==
  [][/\ (pc = "top" /\ pc' = "branch") =>
          send_ready_tasks' =
            SelectSeq(all_tasks, LAMBDA t : is_send_ready(World, t))
     /\ (pc = "branch" /\ pc' = "step") => iter' = send_ready_tasks
     /\ (pc = "step" /\ iter # <<>> /\ (pc' # pc \/ iter' # iter)) =>
          /\ Stepped(Head(iter))
          /\ Len(iter) > 1 => (pc' = "step" /\ iter' = Tail(iter))
          /\ \A t \in Range(iter') : t <= Len(heap)]_vars

\* C14: when SIGINT ends the read before it has returned a value, the step
\* changes no future and no task, leaves the recorded input future recorded,
\* clears _is_waiting, raises nothing out of run_until_complete and reads no
\* value; the loop then reaches its exit test, from which it starts the next
\* iteration unless the target is done or a stop was requested; and a read
\* that returns later resolves the recorded pending future with its value.
C14_InterruptedReadIsNoError ==
  /\ [][(pc = "wait" /\ pc' # "wait" /\ pc' # "got") =>
          /\ pc' = "check"
          /\ sig /\ ~sig'
          /\ ~is_waiting'
          /\ heap' = heap
          /\ all_tasks' = all_tasks
          /\ getch_future' = getch_future
          /\ send_ready_tasks' = send_ready_tasks
          /\ reads' = reads
          /\ ret' = ret]_vars
  /\ [][(pc = "check" /\ pc' # "check" /\ sig' = sig
           /\ ~done(heap[target].state) /\ ~is_stopping) =>
          (pc' = "top" /\ ret' = ret /\ heap' = heap)]_vars
  /\ [][(/\ pc = "got" /\ pc' = "check" /\ sig' = sig
          /\ getch_future # None
          /\ heap[getch_future].state = FutureWaiting) =>
          heap'[getch_future].state = FutureResult(IntV(reads[Len(reads)]))]_vars

\* The timer thread enqueued its callback while the loop was inside the
\* first read and the callback's task has run, though the read has returned
\* no value yet: the read was interrupted, the loop went on to step the task
\* and is inside the read again, the same input future recorded and pending
\* and the task that awaits it still suspended.
C14_Witness ==
  /\ pc = "wait"
  /\ reads = <<>>
  /\ tsafe.task # None
  /\ tsafe.inread
  /\ heap[tsafe.task].state = FutureResult(NoneV)
  /\ getch_future # None
  /\ heap[getch_future].state = FutureWaiting
  /\ \E t \in Range(all_tasks) :
       /\ heap[t].awaited_on = getch_future
       /\ heap[t].coro.live = "suspended"
       /\ heap[t].state = FutureWaiting

\* C15: cancel() on a task that is not done returns True and leaves the task
\* not done and not cancelled, with the same generator and awaited handle;
\* the first such call marks the task cancelling and cancels what the task
\* awaits (a pending future becomes cancelled, a task that is not done
\* becomes cancelling, a done one is left alone), and a further call changes
\* no object; cancel() on a done task returns False and changes no object;
\* and only a step of the loop on the task itself makes a task done.
C15_TwoPhaseCancel ==
  /\ [][\A t \in Tasks :
          (Called("cancel") /\ last'.obj = t) =>
            /\ last'.exc = "none"
            /\ last'.flag = ~done(heap[t].state)
            /\ all_tasks' = all_tasks
            /\ done(heap[t].state) => heap' = heap
            /\ heap[t].state = TaskCancelling => heap' = heap
            /\ ~done(heap[t].state) =>
                 /\ heap'[t] = [heap[t] EXCEPT !.state = TaskCancelling]
                 /\ ~done(heap'[t].state) /\ ~cancelled(heap'[t].state)]_vars
  /\ [][\A t \in Tasks :
          (heap[t].state = FutureWaiting /\ heap'[t].state = TaskCancelling) =>
            LET awaited_on == heap[t].awaited_on
            IN  awaited_on # None =>
                  heap'[awaited_on].state =
                    IF done(heap[awaited_on].state)
                         \/ heap[awaited_on].state = TaskCancelling
                      THEN heap[awaited_on].state
                      ELSE IF heap[awaited_on].kind = "Task"
                        THEN TaskCancelling ELSE FutureCancelled]_vars
  /\ [][\A t \in Tasks :
          (~done(heap[t].state) /\ done(heap'[t].state)) => Stepped(t)]_vars

\* The application cancelled a task that awaited the pending input future:
\* the call returned True, the task is cancelling, not done, and the future
\* it awaits is cancelled.
C15_Witness ==
  /\ last.op = "cancel"
  /\ last.flag
  /\ last.obj \in Tasks
  /\ heap[last.obj].state = TaskCancelling
  /\ heap[last.obj].coro.live = "suspended"
  /\ heap[last.obj].awaited_on \in InputFutures
  /\ heap[heap[last.obj].awaited_on].state = FutureCancelled

\* C16: when the loop sends to an unfinished task whose awaited handle has
\* failed with e, or is cancelled, the step raises e, or CancelledError,
\* inside the generator and sends it no value; none of the computations
\* handles it, so the step leaves the task failed with that same e, or
\* cancelled, and drops it from _all_tasks without ending the loop; and the
\* step in which a computation raises changes no object but its own task,
\* which keeps the error.
C16_ErrorForwarding ==
  /\ [][\A t \in Tasks :
          LET awaited_on == heap[t].awaited_on
          IN  (/\ Stepped(t)
               /\ ~done(heap[t].state)
               /\ awaited_on # None
               /\ heap[awaited_on].state.tag \in {"Exception", "Cancelled"}) =>
                /\ heap'[t].state =
                     IF heap[awaited_on].state.tag = "Exception"
                       THEN FutureException(heap[awaited_on].state.val)
                       ELSE FutureCancelled
                /\ heap'[t].coro = [heap[t].coro EXCEPT !.live = "finished"]
                /\ t \notin Range(all_tasks')
                /\ pc' \in {"step", "check"}
                /\ ret' = ret]_vars
  /\ [][\A t \in Tasks :
          (/\ Stepped(t)
           /\ ~done(heap[t].state)
           /\ heap[t].coro.prog = "raiser") =>
            /\ heap'[t].state = FutureException(Exc("RuntimeError"))
            /\ Len(heap') = Len(heap)
            /\ \A o \in Objects \ {t} : heap'[o] = heap[o]
            /\ all_tasks' = Remove(all_tasks, t)
            /\ pc' \in {"step", "check"}
            /\ ret' = ret]_vars

\* A task awaited a task that failed with RuntimeError: it has failed with
\* that error itself, and run_until_complete on it raised it.
C16_Witness ==
  \E t \in Tasks :
    /\ heap[t].coro.prog = "supervisor"
    /\ heap[t].awaited_on \in Tasks
    /\ heap[heap[t].awaited_on].state = FutureException(Exc("RuntimeError"))
    /\ heap[t].state = heap[heap[t].awaited_on].state
    /\ target = t
    /\ ret = Raised(Exc("RuntimeError"))

\* C17: the loop is never inside the blocking read while the task that
\* call_soon_threadsafe made is send-ready in _all_tasks, the call has
\* finished and no SIGINT is on its way.
C17_NoLostWakeup ==
  ~(/\ pc = "wait"
    /\ tsafe.task # None
    /\ tsafe.task \in Range(all_tasks)
    /\ is_send_ready(World, tsafe.task)
    /\ tpc = "idle"
    /\ ~sig)

\* C18: a SIGINT that call_soon_threadsafe sent reaches the main thread only
\* inside the try of _set_getch_result, where it ends the read and raises
\* nothing out of run_until_complete; and a value the read has returned is
\* set on the recorded pending input future, never dropped.
C18_InterruptOnlyEndsTheRead ==
  [][/\ (sig /\ ~sig') =>
          /\ pc \in {"wait", "got"}
          /\ pc' = "check"
          /\ ret' = ret
     /\ (pc = "got" /\ pc' # "got" /\ getch_future # None
           /\ heap[getch_future].state = FutureWaiting) =>
          heap'[getch_future].state = FutureResult(IntV(next_ch))]_vars

\* C19: the future recorded in _getch_future, when there is one, is pending,
\* also after a task that awaited it was cancelled; so run_until_complete
\* never ends with the InvalidStateError of resolving it after a read.
C19_RecordedInputFuturePending ==
  /\ getch_future # None => heap[getch_future].state = FutureWaiting
  /\ ret # Raised(InvalidStateError)

\* C20: run_until_complete is never inside the blocking read while its
\* target is done or a stop is requested.
C20_NoReadOnceTargetDone ==
  pc \in {"wait", "got"} => (~done(heap[target].state) /\ ~is_stopping)

====
